---- MODULE Spec2Model ----
(***************************************************************************)
(* The conversation loops of the two notebooks                             *)
(*   src/OpenAI/de/2_managing_conversations.ipynb        ("managing")      *)
(*   src/OpenAI/de/1_basic_chatcompletions_example.ipynb ("functions",     *)
(*       the function-calling notebook stored in the second half of the    *)
(*       file, lines 275-557)                                              *)
(* A message is a Python dict, modelled as a record whose DOMAIN is the    *)
(* dict's key set.  A text is a string; only its token count under         *)
(* cl100k_base matters to the program, and TokenCount gives it.            *)
(***************************************************************************)
EXTENDS Integers, Sequences, FiniteSets, TLC

VARIABLES
    program,        \* which notebook's loop is running
    messages,       \* the module-level list `messages`
    user_message,   \* the variable `user_message`
    function_call,  \* the variable `function_call` (functions notebook)
    request,        \* the `messages` argument of the ChatCompletion.create call
    pc,             \* position of the loop
    exception,      \* the exception that ended the cell, "none" while running
    log,            \* history variable: every message ever appended, in order
    pre,            \* history variable: `messages` when the trim loop was entered
    toolcall,       \* history variable: the last function_call response
    turns,          \* history variable: number of input() calls made
    calls           \* history variable: number of ChatCompletion.create calls

vars == <<program, messages, user_message, function_call, request, pc,
          exception, log, pre, toolcall, turns, calls>>

----------------------------------------------------------------------------
(* Bounds of the model *)

MaxTurns == 3
MaxCalls == 4

----------------------------------------------------------------------------
(* Program constants and inputs *)

max_tokens == 3000

Programs == {"managing", "functions"}

system_message(p) ==
    IF p = "managing"
    THEN "You are a helpful assistant."
    ELSE "You are a helpful assistant. Current date is: 2023-09-08"

\* What input("You: ") can return: the sentinel and texts of several sizes.
UserInputs == {"exit", "user text of 10 tokens", "user text of 1500 tokens",
               "user text of 3000 tokens"}

\* response['choices'][0]['message']['content']
AssistantReplies == {"reply of 20 tokens", "reply of 1400 tokens"}

\* response['choices'][0]['message']['function_call']['name']
FunctionNames == {"get_weather", "get_time"}

\* Values a "name" attribute is given when the estimate is probed with one.
NameValues == {"get_weather", "get_time", "weather"}

\* json.dumps(weather)
WeatherResults == {"weather json of 150 tokens", "weather json of 1480 tokens"}

\* len(encoding.encode(value)) for the strings the model uses.  A role is one
\* token (the source's comment on the name rule); the counts of the fixed
\* strings are cl100k_base counts to within a token or two, and the inputs are
\* named by the count they stand for.
TokenCount(value) ==
    CASE value \in {"system", "user", "assistant", "function"} -> 1
      [] value = "get_weather" -> 2
      [] value = "get_time" -> 2
      [] value = "weather" -> 1
      [] value = "exit" -> 1
      [] value = "You are a helpful assistant." -> 6
      [] value = "You are a helpful assistant. Current date is: 2023-09-08" -> 16
      [] value = "user text of 10 tokens" -> 10
      [] value = "user text of 1500 tokens" -> 1500
      [] value = "user text of 3000 tokens" -> 3000
      [] value = "reply of 20 tokens" -> 20
      [] value = "reply of 1400 tokens" -> 1400
      [] value = "weather json of 150 tokens" -> 150
      [] value = "weather json of 1480 tokens" -> 1480

----------------------------------------------------------------------------
(* num_tokens_from_messages *)

\* Mutant of ItemTokens: the `if key == "name"` correction is left out.
RECURSIVE ItemTokensUncorrected(_, _)
ItemTokensUncorrected(message, keys) ==
    IF keys = {} THEN 0
    ELSE LET key == CHOOSE k \in keys : TRUE
         IN  TokenCount(message[key]) + ItemTokensUncorrected(message, keys \ {key})

\* the inner loop `for key, value in message.items()`
RECURSIVE ItemTokens(_, _)
ItemTokens(message, keys) ==
    IF keys = {} THEN 0
    ELSE LET key == CHOOSE k \in keys : TRUE
         IN  TokenCount(message[key])
             + (IF key = "name" THEN -1 ELSE 0)
             + ItemTokens(message, keys \ {key})

\* Mutant of MessageTokens: `num_tokens = 4` in place of `num_tokens += 4`, so
\* only the last message is counted.
MessageTokensReset(msgs) ==
    IF msgs = << >> THEN 0
    ELSE 4 + ItemTokens(msgs[Len(msgs)], DOMAIN msgs[Len(msgs)])

\* the outer loop `for message in messages`
RECURSIVE MessageTokens(_)
MessageTokens(msgs) ==
    IF msgs = << >> THEN 0
    ELSE 4 + ItemTokens(Head(msgs), DOMAIN Head(msgs)) + MessageTokens(Tail(msgs))

\* Mutant of num_tokens_from_messages: the reply priming is left out.
num_tokens_unprimed(msgs) == MessageTokens(msgs)

num_tokens_from_messages(msgs) == MessageTokens(msgs) + 2

----------------------------------------------------------------------------
(* List operations *)

\* Mutants of Pop: pop(i - 1), pop(i + 1) and pop() in place of pop(i).
PopBefore(msgs, i) == SubSeq(msgs, 1, i - 1) \o SubSeq(msgs, i + 1, Len(msgs))

PopAfter(msgs, i) ==
    IF Len(msgs) >= i + 2
    THEN SubSeq(msgs, 1, i + 1) \o SubSeq(msgs, i + 3, Len(msgs))
    ELSE SubSeq(msgs, 1, Len(msgs) - 1)

PopLast(msgs, i) == SubSeq(msgs, 1, Len(msgs) - 1)

\* list.pop(i) on a list that has index i (0-based i, 1-based i + 1)
Pop(msgs, i) == SubSeq(msgs, 1, i) \o SubSeq(msgs, i + 2, Len(msgs))

UserMsg(text)      == [role |-> "user", content |-> text]
AssistantMsg(text) == [role |-> "assistant", content |-> text]
FunctionMsg(text)  == [role |-> "function", name |-> "get_weather", content |-> text]
SystemMsg(p)       == [role |-> "system", content |-> system_message(p)]

NoCall == [name |-> "none"]

----------------------------------------------------------------------------
(* Initial state: the cells that set max_tokens, system_message, messages *)

Init ==
    /\ program \in Programs
    /\ messages = <<SystemMsg(program)>>
    /\ user_message = ""
    /\ function_call = NoCall
    /\ request = << >>
    /\ pc = "input"
    /\ exception = "none"
    /\ log = <<SystemMsg(program)>>
    /\ pre = << >>
    /\ toolcall = NoCall
    /\ turns = 0
    /\ calls = 0

----------------------------------------------------------------------------
(* Actions *)

\* managing notebook: user_message = input(...), then the loop test, then the
\* append of the user message at the top of the loop body.
ReadInputManaging ==
    /\ program = "managing"
    /\ pc = "input"
    /\ turns < MaxTurns
    /\ \E text \in UserInputs :
        /\ user_message' = text
        /\ IF text # "exit"
           THEN /\ messages' = Append(messages, UserMsg(text))
                /\ log' = Append(log, UserMsg(text))
                /\ pre' = Append(messages, UserMsg(text))
                /\ pc' = "trim"
           ELSE /\ pc' = "done"
                /\ UNCHANGED <<messages, log, pre>>
    /\ turns' = turns + 1
    /\ UNCHANGED <<program, function_call, request, exception, toolcall, calls>>

\* Mutant of ReadInputFunctions: the loop body runs without the loop test.
ReadInputFunctionsUntested ==
    /\ program = "functions"
    /\ pc = "input"
    /\ turns < MaxTurns
    /\ \E text \in UserInputs :
        /\ user_message' = text
        /\ messages' = Append(messages, UserMsg(text))
        /\ log' = Append(log, UserMsg(text))
        /\ pre' = Append(messages, UserMsg(text))
    /\ pc' = "trim"
    /\ turns' = turns + 1
    /\ UNCHANGED <<program, function_call, request, exception, toolcall, calls>>

\* functions notebook: user_message = input(...), the append, then the loop test.
ReadInputFunctions ==
    /\ program = "functions"
    /\ pc = "input"
    /\ turns < MaxTurns
    /\ \E text \in UserInputs :
        /\ user_message' = text
        /\ messages' = Append(messages, UserMsg(text))
        /\ log' = Append(log, UserMsg(text))
        /\ IF text # "exit"
           THEN /\ pc' = "trim"
                /\ pre' = Append(messages, UserMsg(text))
           ELSE /\ pc' = "done"
                /\ pre' = pre
    /\ turns' = turns + 1
    /\ UNCHANGED <<program, function_call, request, exception, toolcall, calls>>

\* Mutant of Evict: the loop drops index 1 without testing the count.
EvictUntested ==
    /\ pc = "trim"
    /\ Len(messages) >= 2
    /\ messages' = Pop(messages, 1)
    /\ UNCHANGED <<program, user_message, function_call, request, pc, exception,
                   log, pre, toolcall, turns, calls>>

\* One iteration of `while num_tokens_from_messages(messages) > max_tokens:
\* messages.pop(1)`.  pop(1) on a one-element list raises IndexError.
Evict ==
    /\ pc = "trim"
    /\ num_tokens_from_messages(messages) > max_tokens
    /\ IF Len(messages) >= 2
       THEN /\ messages' = Pop(messages, 1)
            /\ UNCHANGED <<pc, exception>>
       ELSE /\ pc' = "raised"
            /\ exception' = "IndexError"
            /\ UNCHANGED messages
    /\ UNCHANGED <<program, user_message, function_call, request, log, pre,
                   toolcall, turns, calls>>

\* Mutant of Request: the call is made without waiting for the loop's exit test.
RequestUnguarded ==
    /\ pc = "trim"
    /\ calls < MaxCalls
    /\ request' = messages
    /\ calls' = calls + 1
    /\ pc' = "generate"
    /\ UNCHANGED <<program, messages, user_message, function_call, exception,
                   log, pre, toolcall, turns>>

\* The trim loop's exit and the call openai.ChatCompletion.create(messages = messages).
Request ==
    /\ pc = "trim"
    /\ ~(num_tokens_from_messages(messages) > max_tokens)
    /\ calls < MaxCalls
    /\ request' = messages
    /\ calls' = calls + 1
    /\ pc' = "generate"
    /\ UNCHANGED <<program, messages, user_message, function_call, exception,
                   log, pre, toolcall, turns>>

\* Mutant of GenerateReply: the assistant message is inserted before the last
\* message instead of appended.
GenerateReplyInserted ==
    /\ pc = "generate"
    /\ \E text \in AssistantReplies :
        /\ messages' = SubSeq(messages, 1, Len(messages) - 1)
                           \o <<AssistantMsg(text)>>
                           \o SubSeq(messages, Len(messages), Len(messages))
        /\ log' = Append(log, AssistantMsg(text))
    /\ pc' = "input"
    /\ toolcall' = NoCall
    /\ UNCHANGED <<program, user_message, function_call, request, exception,
                   pre, turns, calls>>

\* The call returns a plain reply: append the assistant message, then read input.
GenerateReply ==
    /\ pc = "generate"
    /\ \E text \in AssistantReplies :
        /\ messages' = Append(messages, AssistantMsg(text))
        /\ log' = Append(log, AssistantMsg(text))
    /\ pc' = "input"
    /\ toolcall' = NoCall
    /\ UNCHANGED <<program, user_message, function_call, request, exception,
                   pre, turns, calls>>

\* The call returns finish_reason == "function_call" (functions notebook only).
\* For get_weather the branch goes on to run the tool; for any other name the
\* branch does nothing and the loop starts over.
GenerateFunctionCall ==
    /\ program = "functions"
    /\ pc = "generate"
    /\ \E name \in FunctionNames :
        /\ function_call' = [name |-> name]
        /\ toolcall' = [name |-> name, history |-> messages, appended |-> Len(log)]
        /\ IF name = "get_weather"
           THEN pc' = "tool" /\ pre' = pre
           ELSE pc' = "trim" /\ pre' = messages
    /\ UNCHANGED <<program, messages, user_message, request, exception, log,
                   turns, calls>>

\* Mutant of ToolReturn: the function message overwrites the last message.
ToolReturnOverwrites ==
    /\ pc = "tool"
    /\ \E weather \in WeatherResults :
        /\ messages' = [messages EXCEPT ![Len(messages)] = FunctionMsg(weather)]
        /\ log' = Append(log, FunctionMsg(weather))
        /\ pre' = [messages EXCEPT ![Len(messages)] = FunctionMsg(weather)]
    /\ pc' = "trim"
    /\ UNCHANGED <<program, user_message, function_call, request, exception,
                   toolcall, turns, calls>>

\* json.loads(arguments) and get_weather(...) return: append the function message.
ToolReturn ==
    /\ pc = "tool"
    /\ \E weather \in WeatherResults :
        /\ messages' = Append(messages, FunctionMsg(weather))
        /\ log' = Append(log, FunctionMsg(weather))
        /\ pre' = Append(messages, FunctionMsg(weather))
    /\ pc' = "trim"
    /\ UNCHANGED <<program, user_message, function_call, request, exception,
                   toolcall, turns, calls>>

\* json.loads(arguments) or get_weather(...) raises: nothing catches it.
ToolFail ==
    /\ pc = "tool"
    /\ pc' = "raised"
    /\ exception' = "ToolError"
    /\ UNCHANGED <<program, messages, user_message, function_call, request,
                   log, pre, toolcall, turns, calls>>

\* Mutant of GenerateFail: an assistant message is appended before the failure shows.
GenerateFailAppends ==
    /\ pc = "generate"
    /\ pc' = "raised"
    /\ exception' = "GenerationError"
    /\ messages' = Append(messages, AssistantMsg("reply of 20 tokens"))
    /\ log' = Append(log, AssistantMsg("reply of 20 tokens"))
    /\ UNCHANGED <<program, user_message, function_call, request,
                   pre, toolcall, turns, calls>>

\* openai.ChatCompletion.create raises: nothing catches it.
GenerateFail ==
    /\ pc = "generate"
    /\ pc' = "raised"
    /\ exception' = "GenerationError"
    /\ UNCHANGED <<program, messages, user_message, function_call, request,
                   log, pre, toolcall, turns, calls>>

Next ==
    \/ ReadInputManaging
    \/ ReadInputFunctions
    \/ Evict
    \/ Request
    \/ GenerateReply
    \/ GenerateFunctionCall
    \/ ToolReturn
    \/ ToolFail
    \/ GenerateFail

Spec == Init /\ [][Next]_vars

\* The trim loop's exit and the call, for runs of unbounded length.  MaxCalls
\* bounds the calls made on a new history; a call repeated on the history of
\* an unanswered function call brings the loop back to a state it was already
\* in, so it is left unbounded.
LiveRequest ==
    /\ pc = "trim"
    /\ ~(num_tokens_from_messages(messages) > max_tokens)
    /\ \/ calls < MaxCalls
       \/ /\ toolcall # NoCall
          /\ toolcall.name # "get_weather"
          /\ Len(log) = toolcall.appended
          /\ messages = toolcall.history
    /\ request' = messages
    /\ calls' = IF calls < MaxCalls THEN calls + 1 ELSE calls
    /\ pc' = "generate"
    /\ UNCHANGED <<program, messages, user_message, function_call, exception,
                   log, pre, toolcall, turns>>

LiveNext ==
    \/ ReadInputManaging
    \/ ReadInputFunctions
    \/ Evict
    \/ LiveRequest
    \/ GenerateReply
    \/ GenerateFunctionCall
    \/ ToolReturn
    \/ ToolFail
    \/ GenerateFail

\* The loop is sequential code: the trim loop takes its next iteration or
\* exits into the call, the call returns some result or raises, and the tool
\* returns or raises.  Reading input may block for ever.
LiveSpec ==
    /\ Init
    /\ [][LiveNext]_vars
    /\ WF_vars(Evict)
    /\ WF_vars(LiveRequest)
    /\ WF_vars(GenerateReply \/ GenerateFunctionCall \/ GenerateFail)
    /\ WF_vars(ToolReturn \/ ToolFail)

----------------------------------------------------------------------------
(* The net effect of the trim loop on a history, computed without Pop: while
   the count exceeds max_tokens and an index 1 exists, drop index 1. *)

RECURSIVE TrimResult(_)
TrimResult(msgs) ==
    IF num_tokens_from_messages(msgs) > max_tokens /\ Len(msgs) >= 2
    THEN TrimResult(<<msgs[1]>> \o SubSeq(msgs, 3, Len(msgs)))
    ELSE msgs

\* msgs is the system message of `from` followed by a contiguous suffix of the
\* rest of `from`.
IsSystemPlusSuffix(msgs, from) ==
    /\ Len(from) >= 1
    /\ \E k \in 2..(Len(from) + 1) :
           msgs = <<from[1]>> \o SubSeq(from, k, Len(from))

Last(s) == s[Len(s)]

----------------------------------------------------------------------------
(* Claims *)

\* C1: in every history handed to the generation call, the most recently
\* appended message is still present as the last element.
C1_LastInputHandedToGeneration ==
    pc = "generate" => Len(request) >= 2 /\ Last(request) = Last(log)

\* C2: after the trim loop, either the count is within max_tokens or the
\* history has exactly 2 messages; it never ends with fewer than 2 messages
\* when it started with at least 2.
C2_TrimStopCondition ==
    pc = "generate" =>
        /\ num_tokens_from_messages(request) <= max_tokens \/ Len(request) = 2
        /\ Len(pre) >= 2 => Len(request) >= 2

\* C3: index 0 of the history is always the original system message, and the
\* history is never empty.
C3_SystemMessageKept ==
    /\ Len(messages) >= 1
    /\ messages[1] = log[1]
    /\ messages[1] = SystemMsg(program)

C3_Witness ==
    /\ pc = "generate"
    /\ Len(log) > Len(messages)
    /\ messages[1] = SystemMsg(program)

\* C4: eviction is FIFO among the non-system messages: the history is always
\* the system message followed by a contiguous suffix of everything appended,
\* and during and after a trim it is the system message followed by a
\* contiguous suffix of the pre-trim messages.
C4_FifoEviction ==
    /\ IsSystemPlusSuffix(messages, log)
    /\ pc \in {"trim", "generate"} => IsSystemPlusSuffix(messages, pre)

C4_Witness ==
    /\ pc = "generate"
    /\ Len(messages) >= 2
    /\ Len(messages) < Len(pre)

\* C5: a history handed to generation with a count above max_tokens would be
\* exactly the system message plus one message whose own count exceeds
\* max_tokens; every other history handed to generation is within max_tokens.
C5_OverBudgetOnlyWhenDegenerate ==
    pc = "generate" =>
        \/ num_tokens_from_messages(request) <= max_tokens
        \/ /\ Len(request) = 2
           /\ num_tokens_from_messages(<<request[2]>>) > max_tokens

C5_Witness ==
    /\ pc = "generate"
    /\ Len(request) >= 3
    /\ Len(request) < Len(pre)
    /\ num_tokens_from_messages(pre) > max_tokens
    /\ num_tokens_from_messages(request) <= max_tokens

\* C6: when the system message plus the most recent message still exceed
\* max_tokens, trimming stops without raising and that two-message history is
\* handed to generation.
C6_OversizedPassedThrough ==
    /\ exception # "IndexError"
    /\ (/\ pc = "generate"
        /\ Len(pre) >= 2
        /\ num_tokens_from_messages(<<pre[1], Last(pre)>>) > max_tokens)
       => request = <<pre[1], Last(pre)>>

\* C7 (as claimed): after a failed generation call the history is identical to
\* the history at the moment the turn was requested (before trimming).
C7_FailureLeavesHistoryUnmodified ==
    exception = "GenerationError" => messages = pre

\* C7 (amended): after a failed generation call the history is identical to
\* the trimmed history that was handed to the call: nothing was appended, and
\* trimming it again changes nothing.
C7_FailureLeavesTrimmedHistory ==
    exception = "GenerationError" =>
        /\ messages = request
        /\ messages = TrimResult(pre)
        /\ TrimResult(messages) = messages

C7_Witness ==
    /\ exception = "GenerationError"
    /\ messages # pre
    /\ messages = request

\* C8: after generation returns a tool call, exactly one function-result
\* message is appended, and no user input is accepted, before the next
\* generation request; this for every function name generation may return.
C8_ToolCallThenOneFunctionResult ==
    /\ toolcall # NoCall => pc # "input"
    /\ (toolcall # NoCall /\ pc = "generate") =>
           /\ Len(log) = toolcall.appended + 1
           /\ Last(log).role = "function"

\* C9: in the tool-call branch the only change to the history before the next
\* generation request is the append of one function-result message whose name
\* is the name in the tool call.
C9_ToolBranchAppendsMatchingResult ==
    (toolcall # NoCall /\ pc = "generate") =>
        \E w \in WeatherResults :
            pre = Append(toolcall.history,
                         [role |-> "function", name |-> toolcall.name, content |-> w])

\* C10: every generation call is preceded by a trim of the history as it was
\* after the last append, and receives exactly the trimmed history; a history
\* already within max_tokens is received as it is.
C10_GenerationReceivesTrimmedHistory ==
    pc = "generate" =>
        /\ request = messages
        /\ request = TrimResult(pre)
        /\ num_tokens_from_messages(pre) <= max_tokens => request = pre

C10_Witness ==
    /\ pc = "generate"
    /\ Len(request) = 4
    /\ request = pre
    /\ request[1].role = "system"
    /\ request[2].role = "user"
    /\ request[3].role = "assistant"
    /\ request[4].role = "user"

\* C11: a history whose count is within max_tokens when the trim loop is
\* entered is left exactly unchanged by the loop and is what the call gets.
C11_TrimNoOpWithinBudget ==
    (pc \in {"trim", "generate"} /\ num_tokens_from_messages(pre) <= max_tokens)
        => messages = pre

C11_Witness ==
    /\ pc = "generate"
    /\ num_tokens_from_messages(pre) <= max_tokens
    /\ Len(pre) >= 3
    /\ messages = pre
    /\ Len(log) > Len(pre)

----------------------------------------------------------------------------
(* The estimate written attribute by attribute.  withRole says whether the
   role's tokens are counted. *)

AttributeCost(m, withRole) ==
    4 + (IF withRole THEN TokenCount(m.role) ELSE 0)
      + (IF "content" \in DOMAIN m THEN TokenCount(m.content) ELSE 0)
      + (IF "name" \in DOMAIN m THEN TokenCount(m.name) - 1 ELSE 0)

PerAttributeEstimate(msgs, withRole) ==
    LET sum[i \in 0..Len(msgs)] ==
            IF i = 0 THEN 0 ELSE sum[i - 1] + AttributeCost(msgs[i], withRole)
    IN  2 + sum[Len(msgs)]

\* the dict m with the key "name" set to n / with the key k removed
WithName(m, n) == [k \in DOMAIN m \cup {"name"} |-> IF k = "name" THEN n ELSE m[k]]
WithoutKey(m, key) == [k \in DOMAIN m \ {key} |-> m[k]]

\* C12 (as claimed): the estimate is 2 plus, per message, 4 plus the tokens of
\* content and name (minus 1 for a name); the role contributes nothing.
C12_EstimateIgnoresRole ==
    pc = "trim" =>
        num_tokens_from_messages(messages) = PerAttributeEstimate(messages, FALSE)

\* C12 (amended): the estimate is 2 plus, per message, 4 plus the tokens of
\* every attribute value, the role included, minus 1 if a name is present.
C12_EstimateCountsEveryAttribute ==
    /\ num_tokens_from_messages(messages) = PerAttributeEstimate(messages, TRUE)
    /\ num_tokens_from_messages(<<>>) = 2

C12_Witness ==
    /\ Len(messages) >= 3
    /\ \E i \in 1..Len(messages) : "name" \in DOMAIN messages[i]
    /\ num_tokens_from_messages(messages) > PerAttributeEstimate(messages, FALSE)

\* C13 (as claimed): giving a message a name makes its estimate exactly 1 less.
C13_NameReducesByOne ==
    pc = "trim" =>
        \A i \in 1..Len(log) : \A n \in NameValues :
            "name" \notin DOMAIN log[i] =>
                num_tokens_from_messages(<<WithName(log[i], n)>>)
                    = num_tokens_from_messages(<<log[i]>>) - 1

\* C13 (amended): giving a message a name n changes its estimate by the
\* tokens of n minus 1; a message that has a name costs that much more than
\* the same message without it.  Stated of the message appended last: every
\* message of the history is that one in the state where it was appended.
C13_NameAddsItsTokensMinusOne ==
    LET m == Last(log)
    IN  IF "name" \in DOMAIN m
        THEN num_tokens_from_messages(<<m>>)
                 = num_tokens_from_messages(<<WithoutKey(m, "name")>>)
                       + TokenCount(m.name) - 1
        ELSE \A n \in NameValues :
                 num_tokens_from_messages(<<WithName(m, n)>>)
                     = num_tokens_from_messages(<<m>>) + TokenCount(n) - 1

C13_Witness ==
    /\ "name" \in DOMAIN Last(log)
    /\ num_tokens_from_messages(<<Last(log)>>)
           = num_tokens_from_messages(<<WithoutKey(Last(log), "name")>>) + 1

\* C14: the estimate of a history in which a message lacks both content and
\* function_call is an error, not a number.
C14_MalformedMessageRaises ==
    pc = "trim" =>
        \A i \in 1..Len(messages) :
            num_tokens_from_messages(
                [messages EXCEPT ![i] = WithoutKey(@, "content")]) \notin Int

\* The step that appends the reply to a user message (no tool call since the
\* user message, and the user message still in the history): pre is the
\* history as it was right after the user append.
ReplyToUserStep ==
    /\ pc = "generate"
    /\ pc' = "input"
    /\ toolcall = NoCall
    /\ Last(pre).role = "user"
    /\ Len(messages) >= 2
    /\ Last(messages) = Last(pre)

\* After the step the history is the one before the user append, then the
\* user message, then the assistant message: two longer, the rest in place.
RoundTripAddsTwo ==
    LET before == SubSeq(pre, 1, Len(pre) - 1)
    IN  /\ Len(messages') = Len(before) + 2
        /\ SubSeq(messages', 1, Len(before)) = before
        /\ messages'[Len(messages') - 1] = Last(pre)
        /\ Last(messages').role = "assistant"
        /\ Last(messages') = Last(log')

\* C16 (as claimed): a user message followed by its assistant reply makes the
\* history exactly 2 longer, user message second to last, assistant message
\* last, every earlier message unchanged and in place.
C16_RoundTripAlwaysAddsTwo ==
    [][ReplyToUserStep => RoundTripAddsTwo]_vars

\* C16 (amended): the same, when the trim between the two appends evicts
\* nothing; and the user append itself only adds the user message at the end.
C16_RoundTripAddsTwoWithoutEviction ==
    /\ [][(ReplyToUserStep /\ request = pre) => RoundTripAddsTwo]_vars
    /\ [][(pc = "input" /\ pc' = "trim")
            => /\ messages' = Append(messages, UserMsg(user_message'))
               /\ pre' = messages']_vars

C16_Witness ==
    /\ pc = "input"
    /\ request = pre
    /\ Len(pre) >= 4
    /\ Last(pre).role = "user"
    /\ messages = Append(pre, Last(log))
    /\ Last(messages).role = "assistant"

\* C17: no two function-result messages are adjacent in the history.
C17_NoAdjacentFunctionResults ==
    \A i \in 1..(Len(messages) - 1) :
        ~(messages[i].role = "function" /\ messages[i + 1].role = "function")

\* C18: generation is never called twice in a row on an identical history
\* with no append in between.
C18_NoRepeatedRequestOnSameHistory ==
    (pc = "generate" /\ toolcall # NoCall) =>
        ~(request = toolcall.history /\ Len(log) = toolcall.appended)

\* C19: input is read only while awaiting user input with no tool call
\* pending; once the input is the sentinel the loop has ended, and no further
\* generation request is made and the history no longer changes.
C19_SentinelEndsSession ==
    /\ [](user_message = "exit" => (pc = "done" /\ toolcall = NoCall))
    /\ [][user_message = "exit" => UNCHANGED <<calls, request, messages>>]_vars
    /\ [][user_message' # user_message => (pc = "input" /\ toolcall = NoCall)]_vars

C19_Witness ==
    /\ program = "functions"
    /\ user_message = "exit"
    /\ pc = "done"
    /\ calls >= 2
    /\ \E i \in 1..Len(log) : log[i].role = "function"

\* C21: every step leaves the history unchanged, appends one message at the
\* end, or removes the message at index 1; nothing is modified in place,
\* reordered or inserted elsewhere.
C21_OnlyAppendOrEvictIndexOne ==
    [][\/ messages' = messages
       \/ /\ Len(messages') = Len(messages) + 1
          /\ SubSeq(messages', 1, Len(messages)) = messages
       \/ /\ Len(messages) >= 2
          /\ messages' = <<messages[1]>> \o SubSeq(messages, 3, Len(messages))]_vars

C21_Witness ==
    /\ pc = "input"
    /\ Len(log) > Len(messages)
    /\ Last(messages).role = "assistant"
    /\ \E i \in 1..Len(messages) : messages[i].role = "function"

\* C22: the loop takes only the listed transitions.  A turn is requested
\* (pc = "trim") only from awaiting input with the user message appended or
\* from an issued tool call with its function result appended; a generation
\* result leads to the reply branch or the tool branch; an assistant message
\* is appended only by the step from generation to awaiting input, and a user
\* message only from awaiting input.
C22_OnlyListedTransitions ==
    [][/\ (pc # "trim" /\ pc' = "trim") =>
              \/ pc = "input" /\ messages' = Append(messages, UserMsg(user_message'))
              \/ /\ pc = "tool"
                 /\ Len(messages') = Len(messages) + 1
                 /\ Last(messages').role = "function"
       /\ (pc = "generate" /\ pc' # "raised") => pc' \in {"input", "tool"}
       /\ (Len(messages') > Len(messages) /\ Last(messages').role = "assistant")
              => (pc = "generate" /\ pc' = "input")
       /\ (Len(messages') > Len(messages) /\ Last(messages').role = "user")
              => pc = "input"]_vars

\* C23: removing the message at index 1 strictly decreases the estimate,
\* every message contributes at least 3, and the estimate is at least 2.
C23_EvictionDecreasesEstimate ==
    /\ num_tokens_from_messages(messages) >= 2
    /\ \A i \in 1..Len(messages) :
           num_tokens_from_messages(<<messages[i]>>) - 2 >= 3
    /\ Len(messages) >= 2 =>
           num_tokens_from_messages(<<messages[1]>> \o SubSeq(messages, 3, Len(messages)))
               < num_tokens_from_messages(messages)

C23_Witness ==
    /\ pc = "trim"
    /\ Len(messages) >= 3
    /\ Len(messages) < Len(pre)
    /\ num_tokens_from_messages(messages) < num_tokens_from_messages(pre)
    /\ num_tokens_from_messages(messages) > max_tokens

\* C24: the trim loop ends without raising after at most length - 2 evictions
\* on a history of length >= 2, and none on a history of length 1.
C24_TrimEvictsAtMostLengthMinusTwo ==
    /\ exception # "IndexError"
    /\ pc \in {"trim", "generate"} =>
           Len(pre) - Len(messages) <= (IF Len(pre) >= 2 THEN Len(pre) - 2 ELSE 0)

\* C25: the trim loop is idempotent: the history it hands to generation is
\* left unchanged by trimming again, and when the loop does run a second time
\* with nothing appended (after a tool call the code does not know) the
\* request is the same history as before.
C25_TrimIdempotent ==
    pc = "generate" =>
        /\ TrimResult(request) = request
        /\ TrimResult(TrimResult(pre)) = request
        /\ (toolcall # NoCall /\ Len(log) = toolcall.appended)
               => request = toolcall.history

C25_Witness ==
    /\ pc = "generate"
    /\ toolcall # NoCall
    /\ Len(log) = toolcall.appended
    /\ request = toolcall.history
    /\ Len(request) >= 2
    /\ Len(request) < Len(log)

\* The call is in flight on the very history on which generation last asked
\* for a function the loop does not know.
C26_RequestRepeatedAfterUnknownCall ==
    /\ pc = "generate"
    /\ toolcall # NoCall
    /\ toolcall.name # "get_weather"
    /\ Len(log) = toolcall.appended
    /\ request = toolcall.history

\* C26: a tool call naming a function the loop does not know cannot leave the
\* loop requesting generation for ever on an unchanged history: from some
\* point on no call is made again on the history of such a tool call.
C26_UnknownCallLoopIsLeft ==
    <>[] ~C26_RequestRepeatedAfterUnknownCall

====
